---- MODULE Spec2Model ----
(***************************************************************************)
(* A model of lib/s3.js of ember-cli-deploy-s3-index: upload, activate and *)
(* fetchRevisions of a revisioned file in an S3 bucket, with the paginated *)
(* listing (listAllObjects) and the head probe of the index key they rest  *)
(* on.                                                                     *)
(*                                                                         *)
(* One step of the model is one turn of the node event loop: a call of a   *)
(* public method (which runs up to the requests it issues), or the         *)
(* completion of one request together with every promise callback that    *)
(* completion releases, up to the next request issued.                     *)
(***************************************************************************)
EXTENDS Integers, Sequences, FiniteSets, TLC

\* ------------------------------------------------------------------ bounds

\* Last second of the bucket's clock; a write is stamped with the clock.
MaxClock == 2

\* Longest script of pages a scripted listObjects backend serves.
MaxPages == 3

\* ------------------------------------------------------------------ inputs

\* The revision identifiers deploys are called with, in the order S3 lists
\* their keys (UTF-8 binary order).
Revisions == <<"v1", "v2", "v3">>

RevisionSet == {Revisions[i] : i \in 1..Len(Revisions)}

\* The contents readFile can find at options.filePath.
Files == {"A", "B"}

\* The deploys (calls of a public method) that can be in flight.  Deploy 1 is
\* the one operation of a sequential pipeline; deploy 2 is a second,
\* concurrent one.
Deploys == {1, 2}

bucketName == "assets"

prefix == "app"

filePattern == "index.html"

\* ------------------------------------------------------------------ keys

\* ./util/join-uri-segments: joins two segments with exactly one "/".
joinUriSegments(a, b) ==
    LET a1 == IF Len(a) > 0 /\ SubSeq(a, Len(a), Len(a)) = "/"
              THEN SubSeq(a, 1, Len(a) - 1) ELSE a
        b1 == IF Len(b) > 0 /\ SubSeq(b, 1, 1) = "/"
              THEN SubSeq(b, 2, Len(b)) ELSE b
    IN  IF a1 = "" THEN b1 ELSE a1 \o "/" \o b1

\* upload, activate: key = filePattern + ":" + revisionKey, joined to the prefix.
revisionKey(r) == joinUriSegments(prefix, filePattern \o ":" \o r)

\* activate, fetchRevisions: the key of the live object.
indexKey == joinUriSegments(prefix, filePattern)

\* fetchRevisions: the Prefix of the listing.
revisionPrefix == joinUriSegments(prefix, filePattern \o ":")

\* String.prototype.substr(start) with a 0-based start.
substr(s, start) == SubSeq(s, start + 1, Len(s))

\* The keys of the bucket under the listing's Prefix, in listing order.
ListedKeys == [i \in 1..Len(Revisions) |-> revisionKey(Revisions[i])]

RevisionKeys == {ListedKeys[i] : i \in 1..Len(ListedKeys)}

Keys == {indexKey} \cup RevisionKeys

\* Position of a key in the bucket's key order; 0 for no Marker.
KeyPos(k) == IF k = "" THEN 0 ELSE CHOOSE i \in 1..Len(ListedKeys) : ListedKeys[i] = k

\* ------------------------------------------------------------------ values

\* An optional value: <<>> is JavaScript's undefined, <<v>> is v.
Undefined == <<>>

Some(v) == <<v>>

\* A NextMarker that is absent (or empty): falsy in getNextMarker's ||.
NoMarker == ""

\* The ETag S3 gives an object: a digest of its body, the same for the same body.
ETagOf(fileContents) == "md5-" \o fileContents

Min(a, b) == IF a < b THEN a ELSE b

\* ------------------------------------------------------------------ state

VARIABLES
    bucket,     \* key -> Undefined or Some(metadata): the objects of the S3 bucket
    clock,      \* the bucket's clock, in seconds
    pc,         \* deploy -> "idle" | "fetching" | "reading" | "putting" | "copying" | "done"
    options,    \* deploy -> the options of the call: method, revisionKey, allowOverwrite
    lister,     \* deploy -> listAllObjects: its promise, options.Marker, allRevisions, requests
    head,       \* deploy -> headObject: its promise and what it resolved to
    revisions,  \* deploy -> what fetchRevisions resolved to (the revision ledger)
    calls,      \* deploy -> the putObject and copyObject calls the method issued
    outcome,    \* deploy -> "pending" | "ok" | the rejection of the method's promise
    script,     \* the pages a scripted listObjects backend has yet to serve
    served,     \* the pages it has served to deploy 1's listing
    sent        \* the Marker of every request of deploy 1's listing

vars == <<bucket, clock, pc, options, lister, head, revisions, calls, outcome,
          script, served, sent>>

deployVars == <<pc, options, lister, head, revisions, calls, outcome>>

scriptVars == <<script, served, sent>>

\* ------------------------------------------------------------------ the bucket

\* What listObjects reports of the object stored at key k.
Listed(k) == [Key |-> k, LastModified |-> bucket[k][1].LastModified, ETag |-> bucket[k][1].ETag]

RECURSIVE KeysAfter(_, _)
\* The keys under the Prefix that hold an object, from position i + 1 on, in key order.
KeysAfter(i, b) ==
    IF i >= Len(ListedKeys) THEN <<>>
    ELSE (IF b[ListedKeys[i + 1]] # Undefined THEN <<ListedKeys[i + 1]>> ELSE <<>>)
         \o KeysAfter(i + 1, b)

\* The objects a listObjects request with this Marker has left to list.
Rest(marker) == LET ks == KeysAfter(KeyPos(marker), bucket)
                IN  [i \in 1..Len(ks) |-> Listed(ks[i])]

\* A page of S3's answer: the first n objects after the Marker; truncated when
\* more objects are left.
Page(marker, n, nextMarker) ==
    [Contents    |-> SubSeq(Rest(marker), 1, n),
     IsTruncated |-> n < Len(Rest(marker)),
     NextMarker  |-> nextMarker]

\* The object a putObject at this second stores.
Stored(etag, now) == Some([ETag |-> etag, LastModified |-> now])

\* The object a copyObject stores: the source's ETag.  Its LastModified is left
\* out: s3.js reads the ETag of the index object and nothing else of it.
Copied(source) == Some([ETag |-> source.ETag])

\* ------------------------------------------------------------------ listAllObjects

\* A slip in getNextMarker: the NextMarker of the response is not consulted.
getNextMarkerLastKey(response) ==
    IF Len(response.Contents) = 0 THEN response.NextMarker
    ELSE response.Contents[Len(response.Contents)].Key

\* A slip in getNextMarker: no fall back to the key of the last item.
getNextMarkerNoFallback(response) == response.NextMarker

\* getNextMarker, for a response it does not throw on.
getNextMarker(response) ==
    IF response.NextMarker # NoMarker
    THEN response.NextMarker
    ELSE response.Contents[Len(response.Contents)].Key

\* getNextMarker throws a TypeError: Contents[-1] is undefined, and has no Key.
getNextMarkerThrows(response) ==
    response.NextMarker = NoMarker /\ Len(response.Contents) = 0

\* listAllObjects up to its first listObjects request.
listAllObjects ==
    [status |-> "pending", Marker |-> NoMarker, All |-> <<>>, requests |-> 1, error |-> ""]

\* The lister of a deploy that has called nothing yet.
NoLister ==
    [status |-> "none", Marker |-> NoMarker, All |-> <<>>, requests |-> 0, error |-> ""]

\* A slip in the lister: a page that gives no marker ends the listing, which
\* resolves to the pages it has.
listObjectRecursivelyResolves(l, response) ==
    LET allRevisions == l.All \o response.Contents
    IN  IF response.IsTruncated /\ ~getNextMarkerThrows(response)
        THEN [l EXCEPT !.All = allRevisions, !.Marker = getNextMarker(response),
                       !.requests = @ + 1]
        ELSE [l EXCEPT !.All = allRevisions, !.status = "fulfilled"]

\* A slip in the lister: on a truncated page it asks for two pages at once.
listObjectRecursivelyPrefetch(l, response) ==
    LET allRevisions == l.All \o response.Contents
    IN  IF response.IsTruncated
        THEN IF getNextMarkerThrows(response)
             THEN [l EXCEPT !.All = allRevisions, !.status = "rejected", !.error = "TypeError"]
             ELSE [l EXCEPT !.All = allRevisions, !.Marker = getNextMarker(response),
                            !.requests = @ + 2]
        ELSE [l EXCEPT !.All = allRevisions, !.status = "fulfilled"]

\* listObjectRecursively's callback on a response: push the page, then either
\* ask for the next page or resolve.
listObjectRecursively(l, response) ==
    LET allRevisions == l.All \o response.Contents
    IN  IF response.IsTruncated
        THEN IF getNextMarkerThrows(response)
             THEN [l EXCEPT !.All = allRevisions, !.status = "rejected", !.error = "TypeError"]
             ELSE [l EXCEPT !.All = allRevisions, !.Marker = getNextMarker(response),
                            !.requests = @ + 1]
        ELSE [l EXCEPT !.All = allRevisions, !.status = "fulfilled"]

\* A slip in the error path: the error is swallowed and the listing resolves
\* to the pages it has.
listObjectsFailedSwallowed(l, err) == [l EXCEPT !.status = "fulfilled", !.error = err]

\* A slip in the error path: the failed request is sent again.
listObjectsFailedRetries(l, err) == [l EXCEPT !.requests = @ + 1, !.error = err]

\* listObjects calls back with an error: the promise chain rejects with it.
listObjectsFailed(l, err) == [l EXCEPT !.status = "rejected", !.error = err]

\* ------------------------------------------------------------------ headObject

NoHead == [status |-> "none", data |-> Undefined, error |-> ""]

PendingHead == [status |-> "pending", data |-> Undefined, error |-> ""]

\* A slip in headObject: NotFound is not told from the other errors.
headObjectRejectsNotFound(err, data) ==
    IF err # "" THEN [status |-> "rejected", data |-> Undefined, error |-> err]
    ELSE [status |-> "fulfilled", data |-> data, error |-> ""]

\* headObject's callback: NotFound resolves to undefined, any other error
\* rejects, data resolves.
headObject(err, data) ==
    IF err = "NotFound" THEN [status |-> "fulfilled", data |-> Undefined, error |-> ""]
    ELSE IF err # "" THEN [status |-> "rejected", data |-> Undefined, error |-> err]
    ELSE [status |-> "fulfilled", data |-> data, error |-> ""]

\* ------------------------------------------------------------------ fetchRevisions

\* A slip in the comparator: a - b, which sorts oldest first.
compareAscending(a, b) == a.LastModified - b.LastModified

\* The comparator of the sort: new Date(b.LastModified) - new Date(a.LastModified).
compare(a, b) == b.LastModified - a.LastModified

RECURSIVE sortInsert(_, _)
\* One insertion of a stable sort: d goes before the first element the
\* comparator puts after it (a positive result).
sortInsert(sorted, d) ==
    IF sorted = <<>> THEN <<d>>
    ELSE IF compare(Head(sorted), d) > 0 THEN <<d>> \o sorted
    ELSE <<Head(sorted)>> \o sortInsert(Tail(sorted), d)

RECURSIVE sort(_)
\* Array.prototype.sort with that comparator (stable).
sort(all) ==
    IF all = <<>> THEN <<>>
    ELSE sortInsert(sort(SubSeq(all, 1, Len(all) - 1)), all[Len(all)])

\* A slip in the active test: any revision counts once the index key exists.
activeWheneverCurrent(d, current) ==
    IF current = Undefined THEN "undefined" ELSE "true"

\* active = data.current && d.ETag === data.current.ETag
active(d, current) ==
    IF current = Undefined THEN "undefined"
    ELSE IF d.ETag = current[1].ETag THEN "true" ELSE "false"

\* The record fetchRevisions maps a listed object to.
RevisionRecord(d, current) ==
    [revision  |-> substr(d.Key, Len(revisionPrefix)),
     timestamp |-> d.LastModified,
     active    |-> active(d, current)]

\* fetchRevisions' callback on the joined listing and head probe.
fetchRevisionsThen(all, current) ==
    LET sorted == sort(all)
    IN  [i \in 1..Len(sorted) |-> RevisionRecord(sorted[i], current)]

\* revisions.map(element => element.revision).indexOf(revisionKey) >= 0
found(ledger, r) == \E i \in 1..Len(ledger) : ledger[i].revision = r

\* ------------------------------------------------------------------ upload, activate

\* The rejection of upload: "REVISION ALREADY UPLOADED! (set `allowOverwrite: true` ...)".
DuplicateRevision == "REVISION ALREADY UPLOADED!"

\* The rejection of activate.
RevisionNotFound == "REVISION NOT FOUND!"

\* The error of a request the storage client fails.
TransportFailure == "TransportFailure"

\* The error of a headObject that S3 refuses: an err whose code is not NotFound.
HeadFailure == "Forbidden"

\* A slip in upload's check: allowOverwrite is not consulted.
uploadRejectsIgnoringOverwrite(ledger, opts) == found(ledger, opts.revisionKey)

\* A slip in upload's check: the revision is never found.
uploadRejectsNever(ledger, opts) == FALSE

\* A slip in upload's check: it asks the bucket as it is when the callback runs,
\* not the ledger.
uploadRejectsOnBucket(ledger, opts) ==
    bucket[revisionKey(opts.revisionKey)] # Undefined /\ ~opts.allowOverwrite

\* upload's first callback: reject a revision that is there, unless allowOverwrite.
uploadRejects(ledger, opts) == found(ledger, opts.revisionKey) /\ ~opts.allowOverwrite

\* A slip in activate's check: found > 0 for found >= 0, which misses the newest record.
activateCopiesOffByOne(ledger, opts) ==
    \E i \in 2..Len(ledger) : ledger[i].revision = opts.revisionKey

\* A slip in activate's check: a revision that is already active is not copied again.
activateCopiesUnlessActive(ledger, opts) ==
    \E i \in 1..Len(ledger) :
        ledger[i].revision = opts.revisionKey /\ ledger[i].active # "true"

\* activate's callback: copy when the revision is there.
activateCopies(ledger, opts) == found(ledger, opts.revisionKey)

\* A slip in upload's params: the file is written to the index key.
putParamsToIndexKey(opts, fileContents) ==
    [fn |-> "putObject", Key |-> indexKey, Body |-> fileContents]

\* upload's params with the Body read from the file.
putParams(opts, fileContents) ==
    [fn |-> "putObject", Key |-> revisionKey(opts.revisionKey), Body |-> fileContents]

\* A slip in activate's params: the copy source is the newest key, not the requested one.
copyParamsFromLastKey(opts) ==
    [fn |-> "copyObject", CopySource |-> <<bucketName, ListedKeys[Len(ListedKeys)]>>,
     Key |-> indexKey]

\* A slip in activate's params: the destination is the first revision key.
copyParamsToFirstKey(opts) ==
    [fn |-> "copyObject", CopySource |-> <<bucketName, revisionKey(opts.revisionKey)>>,
     Key |-> ListedKeys[1]]

\* activate's params; CopySource is encodeURIComponent(bucket + "/" + revisionKey),
\* which S3 decodes to the bucket and the key.
copyParams(opts) ==
    [fn |-> "copyObject", CopySource |-> <<bucketName, revisionKey(opts.revisionKey)>>,
     Key |-> indexKey]

\* ------------------------------------------------------------------ actions

Init ==
    /\ bucket = [k \in Keys |-> Undefined]
    /\ clock = 0
    /\ pc = [d \in Deploys |-> "idle"]
    /\ options = [d \in Deploys |-> [method |-> "", revisionKey |-> "", allowOverwrite |-> FALSE]]
    /\ lister = [d \in Deploys |-> NoLister]
    /\ head = [d \in Deploys |-> NoHead]
    /\ revisions = [d \in Deploys |-> Undefined]
    /\ calls = [d \in Deploys |-> <<>>]
    /\ outcome = [d \in Deploys |-> "pending"]
    /\ script = <<>>
    /\ served = <<>>
    /\ sent = <<>>

\* A call of a public method, up to fetchRevisions' Promise.hash: the first
\* listObjects request and the headObject request are both issued.
Call(d, method, r, allowOverwrite) ==
    /\ pc' = [pc EXCEPT ![d] = "fetching"]
    /\ options' = [options EXCEPT ![d] =
           [method |-> method, revisionKey |-> r, allowOverwrite |-> allowOverwrite]]
    /\ lister' = [lister EXCEPT ![d] = listAllObjects]
    /\ head' = [head EXCEPT ![d] = PendingHead]
    /\ revisions' = [revisions EXCEPT ![d] = Undefined]
    /\ calls' = [calls EXCEPT ![d] = <<>>]
    /\ outcome' = [outcome EXCEPT ![d] = "pending"]
    /\ UNCHANGED <<bucket, clock, scriptVars>>

upload(d, r, allowOverwrite) ==
    /\ pc[d] \in {"idle", "done"}
    /\ Call(d, "upload", r, allowOverwrite)

activate(d, r) ==
    /\ pc[d] \in {"idle", "done"}
    /\ Call(d, "activate", r, FALSE)

fetchRevisions(d) ==
    /\ pc[d] \in {"idle", "done"}
    /\ Call(d, "fetchRevisions", "", FALSE)

\* A slip in the join: the callback does not wait for the head probe.
hashResolvedOnListing(l, h) == l.status = "fulfilled"

\* Promise.hash resolves once the listing and the head probe have both resolved.
hashResolved(l, h) == l.status = "fulfilled" /\ h.status = "fulfilled"

\* Promise.hash rejects as soon as one of the two rejects.
hashRejected(l, h) == l.status = "rejected" \/ h.status = "rejected"

\* data.revisions.All.sort(...) sorts in place the array that is the lister's
\* allRevisions: once fetchRevisions' callback has run, the lister's array is
\* newest first.
sortInPlace(d, l, h) ==
    IF pc[d] = "fetching" /\ ~hashRejected(l, h) /\ hashResolved(l, h)
    THEN [l EXCEPT !.All = sort(l.All)]
    ELSE l

\* The promise callbacks that run once the listing is as l and the head probe
\* as h: Promise.hash rejects on the first rejection and resolves when both
\* have resolved; then fetchRevisions' callback, then upload's or activate's.
Then(d, l, h) ==
    IF pc[d] # "fetching"
    THEN UNCHANGED <<pc, revisions, calls, outcome>>
    ELSE IF hashRejected(l, h)
    THEN /\ pc' = [pc EXCEPT ![d] = "done"]
         /\ outcome' = [outcome EXCEPT ![d] =
                IF l.status = "rejected" THEN l.error ELSE h.error]
         /\ UNCHANGED <<revisions, calls>>
    ELSE IF hashResolved(l, h)
    THEN LET ledger == fetchRevisionsThen(l.All, h.data)
         IN  /\ revisions' = [revisions EXCEPT ![d] = Some(ledger)]
             /\ IF options[d].method = "upload"
                THEN IF uploadRejects(ledger, options[d])
                     THEN /\ pc' = [pc EXCEPT ![d] = "done"]
                          /\ outcome' = [outcome EXCEPT ![d] = DuplicateRevision]
                          /\ UNCHANGED calls
                     ELSE /\ pc' = [pc EXCEPT ![d] = "reading"]
                          /\ UNCHANGED <<calls, outcome>>
                ELSE IF options[d].method = "activate"
                THEN IF activateCopies(ledger, options[d])
                     THEN /\ pc' = [pc EXCEPT ![d] = "copying"]
                          /\ calls' = [calls EXCEPT ![d] = Append(@, copyParams(options[d]))]
                          /\ UNCHANGED outcome
                     ELSE /\ pc' = [pc EXCEPT ![d] = "done"]
                          /\ outcome' = [outcome EXCEPT ![d] = RevisionNotFound]
                          /\ UNCHANGED calls
                ELSE /\ pc' = [pc EXCEPT ![d] = "done"]
                     /\ outcome' = [outcome EXCEPT ![d] = "ok"]
                     /\ UNCHANGED calls
    ELSE UNCHANGED <<pc, revisions, calls, outcome>>

\* S3 answers the outstanding listObjects request with a page of the first n
\* objects after the Marker.  It sends no NextMarker (S3 sends one only for a
\* request with a Delimiter).
listObjectsResponse(d, n) ==
    /\ lister[d].status = "pending"
    /\ n \in 0..Len(Rest(lister[d].Marker))
    /\ LET l == listObjectRecursively(lister[d], Page(lister[d].Marker, n, NoMarker))
       IN  /\ lister' = [lister EXCEPT ![d] = sortInPlace(d, l, head[d])]
           /\ Then(d, l, head[d])
    /\ UNCHANGED <<bucket, clock, options, head, scriptVars>>

\* The outstanding listObjects request fails.
listObjectsError(d) ==
    /\ lister[d].status = "pending"
    /\ LET l == listObjectsFailed(lister[d], TransportFailure)
       IN  /\ lister' = [lister EXCEPT ![d] = l]
           /\ Then(d, l, head[d])
    /\ UNCHANGED <<bucket, clock, options, head, scriptVars>>

\* S3 answers the headObject request for the index key.
headObjectResponse(d) ==
    /\ head[d].status = "pending"
    /\ LET h == IF bucket[indexKey] = Undefined
                THEN headObject("NotFound", Undefined)
                ELSE headObject("", bucket[indexKey])
       IN  /\ head' = [head EXCEPT ![d] = h]
           /\ lister' = [lister EXCEPT ![d] = sortInPlace(d, lister[d], h)]
           /\ Then(d, lister[d], h)
    /\ UNCHANGED <<bucket, clock, options, scriptVars>>

\* The headObject request fails with an error that is not NotFound.
headObjectError(d) ==
    /\ head[d].status = "pending"
    /\ LET h == headObject(HeadFailure, Undefined)
       IN  /\ head' = [head EXCEPT ![d] = h]
           /\ Then(d, lister[d], h)
    /\ UNCHANGED <<bucket, clock, options, lister, scriptVars>>

\* readFile resolves; upload's last callback issues the putObject.
readFileDone(d, fileContents) ==
    /\ pc[d] = "reading"
    /\ pc' = [pc EXCEPT ![d] = "putting"]
    /\ calls' = [calls EXCEPT ![d] = Append(@, putParams(options[d], fileContents))]
    /\ UNCHANGED <<bucket, clock, options, lister, head, revisions, outcome, scriptVars>>

\* readFile rejects.
readFileError(d) ==
    /\ pc[d] = "reading"
    /\ pc' = [pc EXCEPT ![d] = "done"]
    /\ outcome' = [outcome EXCEPT ![d] = "ENOENT"]
    /\ UNCHANGED <<bucket, clock, options, lister, head, revisions, calls, scriptVars>>

\* S3 stores the object of the putObject and acknowledges.
putObjectAck(d, now) ==
    /\ pc[d] = "putting"
    /\ now \in clock..Min(clock + 1, MaxClock)
    /\ LET params == calls[d][Len(calls[d])]
       IN  bucket' = [bucket EXCEPT ![params.Key] = Stored(ETagOf(params.Body), now)]
    /\ clock' = now
    /\ pc' = [pc EXCEPT ![d] = "done"]
    /\ outcome' = [outcome EXCEPT ![d] = "ok"]
    /\ UNCHANGED <<options, lister, head, revisions, calls, scriptVars>>

\* The putObject fails; nothing is stored.
putObjectError(d) ==
    /\ pc[d] = "putting"
    /\ pc' = [pc EXCEPT ![d] = "done"]
    /\ outcome' = [outcome EXCEPT ![d] = TransportFailure]
    /\ UNCHANGED <<bucket, clock, options, lister, head, revisions, calls, scriptVars>>

\* S3 copies the source object to the destination key and acknowledges.
copyObjectAck(d) ==
    /\ pc[d] = "copying"
    /\ LET params == calls[d][Len(calls[d])]
           source == bucket[params.CopySource[2]]
       IN  /\ source # Undefined
           /\ bucket' = [bucket EXCEPT ![params.Key] = Copied(source[1])]
    /\ UNCHANGED clock
    /\ pc' = [pc EXCEPT ![d] = "done"]
    /\ outcome' = [outcome EXCEPT ![d] = "ok"]
    /\ UNCHANGED <<options, lister, head, revisions, calls, scriptVars>>

\* The copyObject fails; nothing is stored.
copyObjectError(d) ==
    /\ pc[d] = "copying"
    /\ pc' = [pc EXCEPT ![d] = "done"]
    /\ outcome' = [outcome EXCEPT ![d] = TransportFailure]
    /\ UNCHANGED <<bucket, clock, options, lister, head, revisions, calls, scriptVars>>

\* ------------------------------------------------------------------ a scripted backend

\* The objects a scripted backend lists: those of the first two keys.
ScriptObjects ==
    [i \in 1..2 |->
        [Key |-> ListedKeys[i], LastModified |-> i, ETag |-> ETagOf("A")]]

RECURSIVE Pick(_, _)
\* The objects of ScriptObjects whose positions are in the set, in key order.
Pick(positions, i) ==
    IF i > Len(ScriptObjects) THEN <<>>
    ELSE (IF i \in positions THEN <<ScriptObjects[i]>> ELSE <<>>) \o Pick(positions, i + 1)

\* The Contents a scripted page can have: any of the objects, in key order.
ScriptContents == {Pick(positions, 1) : positions \in SUBSET (1..Len(ScriptObjects))}

\* The NextMarker a scripted page can have: none, or a key.
ScriptMarkers == {NoMarker, ListedKeys[2]}

\* The scripts of n pages: every page but the last is truncated.
Scripts(n) ==
    {[i \in 1..n |-> [Contents    |-> contents[i],
                      IsTruncated |-> i < n,
                      NextMarker  |-> markers[i]]] :
        contents \in [1..n -> ScriptContents], markers \in [1..n -> ScriptMarkers]}

\* A backend that answers the requests of one listing from a script of pages.
InitList ==
    /\ bucket = [k \in Keys |-> Undefined]
    /\ clock = 0
    /\ pc = [d \in Deploys |-> "idle"]
    /\ options = [d \in Deploys |-> [method |-> "", revisionKey |-> "", allowOverwrite |-> FALSE]]
    /\ lister = [d \in Deploys |-> NoLister]
    /\ head = [d \in Deploys |-> NoHead]
    /\ revisions = [d \in Deploys |-> Undefined]
    /\ calls = [d \in Deploys |-> <<>>]
    /\ outcome = [d \in Deploys |-> "pending"]
    /\ script \in UNION {Scripts(n) : n \in 1..MaxPages}
    /\ served = <<>>
    /\ sent = <<>>

\* listAllObjects is called: listObjectRecursively issues the first request,
\* which has no Marker.
listAllObjectsCall ==
    /\ lister[1].status = "none"
    /\ lister' = [lister EXCEPT ![1] = listAllObjects]
    /\ sent' = <<listAllObjects.Marker>>
    /\ UNCHANGED <<bucket, clock, pc, options, head, revisions, calls, outcome, script, served>>

\* The backend answers the outstanding request with the next page of its
\* script; listObjectRecursively's callback runs on it.
scriptedResponse ==
    /\ lister[1].status = "pending"
    /\ script # <<>>
    /\ LET l == listObjectRecursively(lister[1], Head(script))
       IN  /\ lister' = [lister EXCEPT ![1] = l]
           /\ sent' = IF l.status = "pending" THEN Append(sent, l.Marker) ELSE sent
    /\ served' = Append(served, Head(script))
    /\ script' = Tail(script)
    /\ UNCHANGED <<bucket, clock, pc, options, head, revisions, calls, outcome>>

NextList == listAllObjectsCall \/ scriptedResponse

SpecList == InitList /\ [][NextList]_vars

\* One deploy at a time (deploy 1), against a bucket nothing else writes to.
Next ==
    \/ \E r \in RevisionSet, allowOverwrite \in BOOLEAN : upload(1, r, allowOverwrite)
    \/ \E r \in RevisionSet : activate(1, r)
    \/ fetchRevisions(1)
    \/ \E n \in 0..Len(Revisions) : listObjectsResponse(1, n)
    \/ listObjectsError(1)
    \/ headObjectResponse(1)
    \/ headObjectError(1)
    \/ \E fileContents \in Files : readFileDone(1, fileContents)
    \/ readFileError(1)
    \/ \E now \in 0..MaxClock : putObjectAck(1, now)
    \/ putObjectError(1)
    \/ copyObjectAck(1)
    \/ copyObjectError(1)

Spec == Init /\ [][Next]_vars

\* S3 answers the outstanding listObjects request as a backend does that
\* honours the Marker and puts at least one object in every truncated page.
listObjectsPage(d, n) ==
    /\ n >= 1 \/ Len(Rest(lister[d].Marker)) = 0
    /\ listObjectsResponse(d, n)

\* The operations against a backend that answers every request and fails none.
\* What a listing does depends on the keys in the bucket only, so the uploads
\* that fill it are those of one file, stored at one time.
NextLive ==
    \/ \E r \in RevisionSet : upload(1, r, TRUE)
    \/ fetchRevisions(1)
    \/ \E n \in 0..Len(Revisions) : listObjectsPage(1, n)
    \/ headObjectResponse(1)
    \/ readFileDone(1, "A")
    \/ putObjectAck(1, 0)

\* Every listObjects request is answered in the end.
SpecLive ==
    /\ Init
    /\ [][NextLive]_vars
    /\ WF_vars(\E n \in 0..Len(Revisions) : listObjectsPage(1, n))

\* The revisions the two deploys build: one that is there before the race and
\* the one both of them upload.
RaceRevisions == {Revisions[1], Revisions[2]}

\* Two deploys upload at the same time, neither with allowOverwrite, against a
\* backend that answers every request; their requests complete in any order.
NextRace ==
    \E d \in Deploys :
        \/ \E r \in RaceRevisions : upload(d, r, FALSE)
        \/ \E n \in 0..Len(Revisions) : listObjectsPage(d, n)
        \/ headObjectResponse(d)
        \/ \E fileContents \in Files : readFileDone(d, fileContents)
        \/ \E now \in 0..MaxClock : putObjectAck(d, now)

SpecRace == Init /\ [][NextRace]_vars

\* ------------------------------------------------------------------ properties

\* The ledger fetchRevisions resolved to in the current call of deploy d.
Ledger(d) == revisions[d][1]

\* The ledger of deploy d holds a record for revision r.
HasRecord(d, r) ==
    /\ revisions[d] # Undefined
    /\ \E i \in 1..Len(Ledger(d)) : Ledger(d)[i].revision = r

\* The one putObject call an upload of its revision issues.
OnePut(d) ==
    /\ Len(calls[d]) = 1
    /\ calls[d][1].fn = "putObject"
    /\ calls[d][1].Key = revisionKey(options[d].revisionKey)

\* The one copyObject call an activate of its revision issues.
OneCopy(d) ==
    /\ Len(calls[d]) = 1
    /\ calls[d][1].fn = "copyObject"
    /\ calls[d][1].CopySource = <<bucketName, revisionKey(options[d].revisionKey)>>
    /\ calls[d][1].Key = indexKey

\* C1. Overwrite protection: an upload of revision r whose ledger holds a record
\* for r fails with DuplicateRevision and issues no putObject when
\* allowOverwrite is false.  With allowOverwrite true it is not rejected: it
\* issues nothing before the file is read, then exactly one putObject to the
\* revision key of r, and it succeeds, the only failures left to it being
\* those of readFile (before any putObject) and of that one putObject.
C1_OverwriteProtection ==
    \A d \in Deploys :
        options[d].method = "upload" /\ HasRecord(d, options[d].revisionKey) =>
            IF ~options[d].allowOverwrite
            THEN pc[d] = "done" /\ outcome[d] = DuplicateRevision /\ calls[d] = <<>>
            ELSE /\ pc[d] \in {"reading", "putting", "done"}
                 /\ pc[d] = "reading" => calls[d] = <<>> /\ outcome[d] = "pending"
                 /\ pc[d] = "putting" => OnePut(d) /\ outcome[d] = "pending"
                 /\ pc[d] = "done" =>
                        \/ outcome[d] = "ok" /\ OnePut(d)
                        \/ outcome[d] = "ENOENT" /\ calls[d] = <<>>
                        \/ outcome[d] = TransportFailure /\ OnePut(d)

\* C1 witness: an upload without allowOverwrite was rejected as a duplicate.
C1_Witness ==
    /\ options[1].method = "upload"
    /\ ~options[1].allowOverwrite
    /\ HasRecord(1, options[1].revisionKey)
    /\ outcome[1] = DuplicateRevision

\* C2. Activation guard: an activate of revision r whose ledger holds no record
\* for r fails with RevisionNotFound and issues no copyObject; when the ledger
\* holds a record for r it issues exactly one copyObject, from the revision key
\* of r to the index key.
C2_ActivationGuard ==
    \A d \in Deploys :
        options[d].method = "activate" /\ revisions[d] # Undefined =>
            IF ~HasRecord(d, options[d].revisionKey)
            THEN pc[d] = "done" /\ outcome[d] = RevisionNotFound /\ calls[d] = <<>>
            ELSE OneCopy(d) /\ outcome[d] # RevisionNotFound

\* C2 witness: an activate of a revision that is not in a non-empty ledger was rejected.
C2_Witness ==
    /\ options[1].method = "activate"
    /\ revisions[1] # Undefined
    /\ Len(Ledger(1)) > 0
    /\ ~HasRecord(1, options[1].revisionKey)
    /\ outcome[1] = RevisionNotFound

\* C3. Revision immutability: a step of a deploy that was not called with
\* allowOverwrite (an upload without it, an activate, a fetchRevisions) leaves
\* every object that exists at a revision key as it is.
C3_RevisionImmutability ==
    [][\A k \in RevisionKeys :
           (\A d \in Deploys : ~options[d].allowOverwrite) /\ bucket[k] # Undefined
               => bucket'[k] = bucket[k]]_vars

\* C3 witness: an upload without allowOverwrite has stored a second revision
\* beside one that was stored at an earlier second.
C3_Witness ==
    /\ options[1].method = "upload"
    /\ ~options[1].allowOverwrite
    /\ outcome[1] = "ok"
    /\ \E k \in RevisionKeys :
           /\ k # revisionKey(options[1].revisionKey)
           /\ bucket[k] # Undefined
           /\ bucket[k][1].LastModified < bucket[revisionKey(options[1].revisionKey)][1].LastModified

\* C5. Active detection: in the ledger fetchRevisions resolves to, every listed
\* object d has a record (record i is of item i of the array the sort has left
\* newest first), and a record of d has active = true exactly when the head
\* probe of the index key found an object whose ETag is d's ETag; when the
\* probe found no object, no record is active.
C5_ActiveDetection ==
    \A d \in Deploys :
        revisions[d] # Undefined =>
            /\ Len(Ledger(d)) = Len(lister[d].All)
            /\ \A i \in 1..Len(Ledger(d)) :
                   /\ revisionKey(Ledger(d)[i].revision) = lister[d].All[i].Key
                   /\ Ledger(d)[i].active = "true" <=>
                          /\ head[d].data # Undefined
                          /\ head[d].data[1].ETag = lister[d].All[i].ETag
            /\ head[d].data = Undefined =>
                   \A i \in 1..Len(Ledger(d)) : Ledger(d)[i].active # "true"

\* C5 witness: a ledger with one record that is active and one that is not.
C5_Witness ==
    /\ revisions[1] # Undefined
    /\ \E i, j \in 1..Len(Ledger(1)) :
           Ledger(1)[i].active = "true" /\ Ledger(1)[j].active = "false"

\* C6. At most one active record: no ledger fetchRevisions resolves to has two
\* records with active = true.
C6_AtMostOneActive ==
    \A d \in Deploys :
        revisions[d] # Undefined =>
            Cardinality({i \in 1..Len(Ledger(d)) : Ledger(d)[i].active = "true"}) <= 1

\* C7. Revision ledger ordering: the ledger is sorted by timestamp, newest
\* first, and holds exactly one record for every listed object: record i is
\* that of item i of the listed array, which the sort has left newest first,
\* and no two records are of the same revision.
C7_LedgerOrdering ==
    \A d \in Deploys :
        revisions[d] # Undefined =>
            /\ \A i \in 1..(Len(Ledger(d)) - 1) :
                   /\ Ledger(d)[i].timestamp >= Ledger(d)[i + 1].timestamp
                   /\ \A j \in (i + 1)..Len(Ledger(d)) :
                          Ledger(d)[i].revision # Ledger(d)[j].revision
            /\ Len(Ledger(d)) = Len(lister[d].All)
            /\ \A i \in 1..Len(Ledger(d)) :
                   /\ revisionKey(Ledger(d)[i].revision) = lister[d].All[i].Key
                   /\ Ledger(d)[i].timestamp = lister[d].All[i].LastModified

\* C7 witness: fetchRevisions has resolved to a ledger of three records with
\* three timestamps; the bucket lists the objects, by key, in a different order
\* than the ledger has them, and the sort has left the lister's own array
\* newest first.
C7_Witness ==
    /\ options[1].method = "fetchRevisions"
    /\ pc[1] = "done"
    /\ revisions[1] # Undefined
    /\ Len(Ledger(1)) = 3
    /\ Ledger(1)[1].timestamp > Ledger(1)[2].timestamp
    /\ Ledger(1)[2].timestamp > Ledger(1)[3].timestamp
    /\ bucket[ListedKeys[1]][1].LastModified < bucket[ListedKeys[2]][1].LastModified
    /\ lister[1].All[1].LastModified > lister[1].All[2].LastModified

\* The object at the index key and the object of revision r have the same ETag.
IndexIs(r) ==
    /\ bucket[indexKey] # Undefined
    /\ bucket[revisionKey(r)] # Undefined
    /\ bucket[indexKey][1].ETag = bucket[revisionKey(r)][1].ETag

\* The ledger of deploy d marks revision r active.
MarkedActive(d, r) ==
    /\ revisions[d] # Undefined
    /\ \E i \in 1..Len(Ledger(d)) :
           Ledger(d)[i].revision = r /\ Ledger(d)[i].active = "true"

\* C8. Activation makes the revision active: when activate of r has succeeded,
\* the object at the index key has the ETag of the object at the revision key
\* of r; and a fetchRevisions that resolves while the index key has the ETag
\* of a revision's object (as it does from such an activate on, until the
\* next write) returns that revision's record with active = true.
C8_ActivationMakesActive ==
    \A d \in Deploys :
        /\ options[d].method = "activate" /\ outcome[d] = "ok" =>
               IndexIs(options[d].revisionKey)
        /\ options[d].method = "fetchRevisions" /\ outcome[d] = "ok" =>
               \A r \in RevisionSet : IndexIs(r) => MarkedActive(d, r)

\* C8 witness: a fetchRevisions returned active = true for the revision at the
\* index key, of two revisions of different content.
C8_Witness ==
    /\ options[1].method = "fetchRevisions"
    /\ outcome[1] = "ok"
    /\ \E r, q \in RevisionSet :
           /\ IndexIs(r) /\ MarkedActive(1, r)
           /\ bucket[revisionKey(q)] # Undefined /\ ~IndexIs(q)

\* C9. Idempotence of activation: an activate of the revision its ledger marks
\* active passes the guard and issues its one copyObject; the acknowledgement
\* of that copyObject makes it succeed and leaves the object at the index key
\* with the ETag it had, and nothing but a failure of the copyObject makes it
\* fail.
C9_ActivationIdempotent ==
    [][\A d \in Deploys :
           options[d].method = "activate" /\ MarkedActive(d, options[d].revisionKey) =>
               /\ pc[d] \in {"copying", "done"}
               /\ OneCopy(d)
               /\ pc[d] = "copying" =>
                      /\ pc'[d] = "done"
                      /\ outcome'[d] \in {"ok", TransportFailure}
                      /\ bucket[indexKey] # Undefined /\ bucket'[indexKey] # Undefined
                      /\ bucket'[indexKey][1].ETag = bucket[indexKey][1].ETag
               /\ pc[d] = "done" => outcome[d] \in {"ok", TransportFailure}]_vars

\* C9 witness: the activate of a revision that was already active has succeeded.
C9_Witness ==
    /\ options[1].method = "activate"
    /\ MarkedActive(1, options[1].revisionKey)
    /\ outcome[1] = "ok"

\* C10. Upload frame: no step of an upload changes the object at the index
\* key or at another revision key than its own, and the step that makes it
\* succeed stores, at the revision key of r, the object of the file it read.
C10_UploadFrame ==
    [][\A d \in Deploys :
           options[d].method = "upload" /\ pc[d] # "done" =>
               /\ \A k \in Keys \ {revisionKey(options[d].revisionKey)} :
                      bucket'[k] = bucket[k]
               /\ outcome'[d] = "ok" =>
                      /\ OnePut(d)
                      /\ bucket'[revisionKey(options[d].revisionKey)] # Undefined
                      /\ bucket'[revisionKey(options[d].revisionKey)][1].ETag
                             = ETagOf(calls[d][1].Body)
               /\ outcome'[d] # "ok" =>
                      bucket'[revisionKey(options[d].revisionKey)]
                          = bucket[revisionKey(options[d].revisionKey)]]_vars

\* C10 witness: an upload has replaced its revision's object while the index
\* key and another revision key hold objects.
C10_Witness ==
    /\ options[1].method = "upload"
    /\ options[1].allowOverwrite
    /\ HasRecord(1, options[1].revisionKey)
    /\ outcome[1] = "ok"
    /\ bucket[indexKey] # Undefined
    /\ \E k \in RevisionKeys :
           k # revisionKey(options[1].revisionKey) /\ bucket[k] # Undefined

RECURSIVE Flatten(_)
\* The Contents of the pages, one after the other.
Flatten(pages) ==
    IF pages = <<>> THEN <<>> ELSE Head(pages).Contents \o Flatten(Tail(pages))

\* Every request after the first was sent the NextMarker of the page before it,
\* or, when that page had none, the key of its last item.
MarkerRule ==
    /\ Len(sent) > 0 => sent[1] = NoMarker
    /\ \A n \in 1..(Len(sent) - 1) :
           sent[n + 1] = IF served[n].NextMarker # NoMarker
                         THEN served[n].NextMarker
                         ELSE served[n].Contents[Len(served[n].Contents)].Key

\* The listing has resolved to every item of every page of the script, in order.
Complete ==
    /\ lister[1].status = "fulfilled"
    /\ script = <<>>
    /\ lister[1].All = Flatten(served)
    /\ lister[1].requests = Len(served)

\* A truncated page with no NextMarker and no item: it has no last item to
\* take the next Marker from.
NoNextMarker(page) ==
    page.IsTruncated /\ page.NextMarker = NoMarker /\ page.Contents = <<>>

\* C4 as stated. Pagination completeness for any script of pages: the listing
\* is never rejected, a request is outstanding until the script is used up,
\* then the listing has resolved to every item of every page in order; and the
\* Markers follow the rule.
C4_AnyPages ==
    /\ lister[1].status \in {"none", "pending", "fulfilled"}
    /\ lister[1].status = "fulfilled" => Complete
    /\ script = <<>> => Complete
    /\ MarkerRule

\* C4, amended. Pagination completeness for a script in which every truncated
\* page has a NextMarker or at least one item: the listing is not rejected, it
\* resolves when the script is used up, to every item of every page, in page
\* order and within-page order; and the Marker of request N+1 is the NextMarker
\* of page N when it has one, otherwise the key of the last item of page N.
C4_PaginationComplete ==
    (\A n \in 1..Len(served) : ~NoNextMarker(served[n])) =>
        /\ lister[1].status \in {"none", "pending", "fulfilled"}
        /\ lister[1].status = "fulfilled" => Complete
        /\ script = <<>> => Complete
        /\ lister[1].status = "pending" => Len(sent) = Len(served) + 1
        /\ MarkerRule

\* C4 witness: a listing of three pages has resolved; the first page had no
\* NextMarker, the second had one that is not the key of its last item.
C4_Witness ==
    /\ Complete
    /\ Len(served) = 3
    /\ Len(lister[1].All) >= 3
    /\ served[1].NextMarker = NoMarker
    /\ served[2].NextMarker # NoMarker
    /\ served[2].Contents # <<>>
    /\ served[2].NextMarker # served[2].Contents[Len(served[2].Contents)].Key
    /\ sent = <<NoMarker, served[1].Contents[Len(served[1].Contents)].Key, served[2].NextMarker>>

\* The ETag of the object at key k; "" when the bucket has no object there.
ETagAt(b, k) == IF b[k] = Undefined THEN "" ELSE b[k][1].ETag

\* The outcomes of an operation that has failed.
Failures ==
    {DuplicateRevision, RevisionNotFound, TransportFailure, HeadFailure, "TypeError", "ENOENT"}

\* C11. Activation frame and reversibility: no step of an activate changes the
\* object at any revision key; only the step that completes it with success
\* changes the object at the index key, to the ETag of the revision's object;
\* and an activate whose ledger resolves while the revision's object is there
\* issues its copyObject, whatever was activated before it. So a revision that
\* was activated and then replaced by another can be activated again and the
\* index key gets its ETag back.
C11_ActivationFrame ==
    [][\A d \in Deploys :
          (options[d].method = "activate" /\ pc[d] \in {"fetching", "copying"}) =>
              LET r == options[d].revisionKey
              IN  /\ \A k \in RevisionKeys : bucket'[k] = bucket[k]
                  /\ (revisions[d] = Undefined /\ revisions'[d] # Undefined
                          /\ bucket[revisionKey(r)] # Undefined) =>
                         (pc'[d] = "copying" /\ OneCopy(d)')
                  /\ outcome'[d] = "ok" =>
                         /\ bucket'[indexKey] # Undefined
                         /\ ETagAt(bucket', indexKey) = ETagAt(bucket, revisionKey(r))
                  /\ outcome'[d] # "ok" => bucket'[indexKey] = bucket[indexKey]]_vars

\* C11 witness: an older revision has been activated again. The ledger of the
\* activate shows a newer revision as the active one and the older one as not
\* active; the activate has succeeded and the index key has the older
\* revision's ETag, which is not the newer one's.
C11_Witness ==
    \E d \in Deploys :
        /\ options[d].method = "activate"
        /\ pc[d] = "done"
        /\ outcome[d] = "ok"
        /\ IndexIs(options[d].revisionKey)
        /\ \E q \in RevisionSet :
               /\ MarkedActive(d, q)
               /\ ~MarkedActive(d, options[d].revisionKey)
               /\ ~IndexIs(q)
               /\ bucket[revisionKey(q)] # Undefined
               /\ bucket[revisionKey(q)][1].LastModified
                      > bucket[revisionKey(options[d].revisionKey)][1].LastModified

\* The listing or the head probe of deploy d has met an error.
FetchError(d) == lister[d].error # "" \/ head[d].error # ""

\* C12. No partial commits: no step of an upload or of an activate changes the
\* bucket except the step that completes it with success, so a failed
\* operation leaves every object as it was when the operation was called. An
\* error of the listing or of the head probe makes the operation fail with no
\* putObject or copyObject issued, and so do a duplicate revision, a revision
\* not found and a file read error; a failure after a request was issued is
\* the failure of that one request.
C12_NoPartialCommit ==
    [][\A d \in Deploys :
          (options[d].method \in {"upload", "activate"}
                /\ pc[d] \in {"fetching", "reading", "putting", "copying"}) =>
              /\ outcome'[d] # "ok" => bucket' = bucket
              /\ FetchError(d)' =>
                     (pc'[d] = "done" /\ outcome'[d] \in Failures /\ calls'[d] = <<>>)
              /\ outcome'[d] \in Failures \ {TransportFailure} => calls'[d] = <<>>
              /\ (outcome'[d] = TransportFailure /\ calls'[d] # <<>>) =>
                     (pc[d] \in {"putting", "copying"} /\ calls'[d] = calls[d]
                        /\ Len(calls[d]) = 1)]_vars

\* C12 witness: an activate has failed on its copyObject while another
\* revision was the active one, and the index key still has that revision's
\* ETag; the revision that was to be activated has another ETag.
C12_Witness ==
    \E d \in Deploys :
        /\ options[d].method = "activate"
        /\ pc[d] = "done"
        /\ outcome[d] = TransportFailure
        /\ OneCopy(d)
        /\ \E q \in RevisionSet : MarkedActive(d, q) /\ IndexIs(q)
        /\ ~IndexIs(options[d].revisionKey)

\* C13 as stated. Every head probe error other than not-found makes the
\* operation fail with that error.
C13_HeadErrorSurfaced ==
    \A d \in Deploys :
        head[d].status = "rejected" => outcome[d] = head[d].error

\* C13, amended. Head-probe error mapping: a not-found result of the head probe
\* is never an error of the probe nor the outcome of the operation, and when
\* the listing has resolved too the ledger is computed with no record active;
\* every other head-probe error makes the operation fail with no ledger and no
\* putObject or copyObject issued, with that error, unless the listing had
\* been rejected before it, in which case the operation has failed with the
\* error of the listing.
C13_HeadErrorMapping ==
    \A d \in Deploys :
        /\ head[d].error # "NotFound"
        /\ outcome[d] # "NotFound"
        /\ (head[d].status = "fulfilled" /\ head[d].data = Undefined
                /\ lister[d].status = "fulfilled") =>
               /\ revisions[d] # Undefined
               /\ \A r \in RevisionSet : ~MarkedActive(d, r)
               /\ outcome[d] \notin {HeadFailure, "TypeError"}
        /\ head[d].status = "rejected" =>
               /\ head[d].error = HeadFailure
               /\ pc[d] = "done"
               /\ revisions[d] = Undefined
               /\ calls[d] = <<>>
               /\ outcome[d] \in {head[d].error}
                      \cup (IF lister[d].status = "rejected" THEN {lister[d].error} ELSE {})

\* C13 witness: an upload has failed with the error of its head probe, with
\* no request issued, although its listing has resolved to a listed revision.
C13_Witness ==
    \E d \in Deploys :
        /\ options[d].method = "upload"
        /\ head[d].status = "rejected"
        /\ outcome[d] = HeadFailure
        /\ lister[d].status = "fulfilled"
        /\ Len(lister[d].All) > 0
        /\ calls[d] = <<>>

\* C14. Listing failure: when a listObjects request fails, the listing is
\* rejected with that error in the same step, with no request more issued than
\* before, and it stays as it is until the next operation; its caller gets no
\* ledger, so none of the items of the pages before, and has failed with no
\* putObject or copyObject issued, with that error unless the head probe had
\* been rejected before.
C14_ListingFailure ==
    [][\A d \in Deploys :
          /\ (lister[d].error = "" /\ lister'[d].error = TransportFailure) =>
                 /\ lister[d].status = "pending"
                 /\ lister'[d].status = "rejected"
                 /\ lister'[d].requests = lister[d].requests
          /\ lister[d].error = TransportFailure =>
                 /\ lister[d].status = "rejected"
                 /\ pc[d] = "done"
                 /\ revisions[d] = Undefined
                 /\ calls[d] = <<>>
                 /\ outcome[d] \in {TransportFailure}
                        \cup (IF head[d].status = "rejected" THEN {head[d].error} ELSE {})
                 /\ pc'[d] = "done" => lister'[d] = lister[d]]_vars

\* C14 witness: the request for the second page of an upload's listing has
\* failed after the first page had brought an item; the upload has failed with
\* that error.
C14_Witness ==
    \E d \in Deploys :
        /\ options[d].method = "upload"
        /\ lister[d].status = "rejected"
        /\ lister[d].error = TransportFailure
        /\ lister[d].requests = 2
        /\ Len(lister[d].All) = 1
        /\ outcome[d] = TransportFailure
        /\ revisions[d] = Undefined

\* C16. Sequential pagination: the listing has issued as many requests as it
\* has sent Markers; the requests issued are the responses received plus the
\* one outstanding while the listing is pending, and exactly the responses
\* received once it has settled. So at most one request is outstanding, and
\* request N+1 is issued only when the response of request N has been received.
C16_SequentialPagination ==
    /\ lister[1].requests = Len(sent)
    /\ lister[1].status = "pending" => lister[1].requests = Len(served) + 1
    /\ lister[1].status \in {"fulfilled", "rejected"} => lister[1].requests = Len(served)
    /\ lister[1].status = "none" => lister[1].requests = 0 /\ served = <<>>

\* C16 witness: the third request of a listing is outstanding and two responses
\* have been received.
C16_Witness ==
    /\ lister[1].status = "pending"
    /\ lister[1].requests = 3
    /\ Len(served) = 2
    /\ Len(sent) = 3

\* The operation of deploy d has got to its write: it is reading the file, or
\* it has issued a putObject or a copyObject.
AtWrite(d) == calls[d] # <<>> \/ pc[d] \in {"reading", "putting", "copying"}

\* C17. Fan-in barrier before any write: while only one of the listing and the
\* head probe has completed, whichever it is, the operation is still fetching
\* and has issued nothing; an operation that got to its write has a listing
\* that resolved with its last page, which holds every object under the
\* prefix, and a head probe that resolved.
C17_FanInBarrier ==
    \A d \in Deploys :
        /\ (lister[d].status = "fulfilled" /\ head[d].status = "pending") =>
               (pc[d] = "fetching" /\ calls[d] = <<>> /\ revisions[d] = Undefined)
        /\ (lister[d].status = "pending" /\ head[d].status = "fulfilled") =>
               (pc[d] \in {"fetching", "done"} /\ calls[d] = <<>>
                  /\ revisions[d] = Undefined)
        /\ AtWrite(d) =>
               /\ lister[d].status = "fulfilled"
               /\ head[d].status = "fulfilled"
               /\ revisions[d] # Undefined
               /\ pc[d] # "done" => Len(lister[d].All) = Len(Rest(NoMarker))

\* C17 witness: an activate has issued its copyObject after a listing of two
\* pages and a head probe that found an index object.
C17_Witness ==
    \E d \in Deploys :
        /\ pc[d] = "copying"
        /\ OneCopy(d)
        /\ lister[d].status = "fulfilled"
        /\ lister[d].requests = 2
        /\ head[d].status = "fulfilled"
        /\ head[d].data # Undefined

\* Revision q was the active one and has been overwritten with other content,
\* and has not been activated since: the index key has an object, which only
\* a copy of a revision's object can have put there; q's object is the only
\* revision object, so it was q's; and its ETag is not the index object's now.
Deactivated(q) ==
    /\ bucket[indexKey] # Undefined
    /\ bucket[revisionKey(q)] # Undefined
    /\ ~IndexIs(q)
    /\ \A p \in RevisionSet \ {q} : bucket[revisionKey(p)] = Undefined

\* The index key is left alone by an upload that completes with a new ETag at
\* the key of the revision that is the active one, which is then not the
\* active one any more.
OverwriteKeepsIndex(d) ==
    LET r == options[d].revisionKey
    IN  (options[d].method = "upload" /\ pc[d] = "putting" /\ outcome'[d] = "ok"
            /\ IndexIs(r)
            /\ ETagAt(bucket', revisionKey(r)) # ETagAt(bucket, revisionKey(r))) =>
            (bucket'[indexKey] = bucket[indexKey] /\ ~IndexIs(r)')

\* The ledger fetchRevisions resolves to marks a revision active exactly when
\* the index key has its ETag.
LedgerMarksIndex(d) ==
    (options[d].method = "fetchRevisions" /\ outcome'[d] = "ok") =>
        \A q \in RevisionSet : MarkedActive(d, q)' <=> IndexIs(q)'

\* C19 as stated. Overwriting the active revision deactivates it, until it is
\* activated again: the overwrite leaves the index key as it was, the ledger
\* marks the revisions with the index key's ETag, and a revision that was
\* deactivated by an overwrite gets the index key's ETag again only in the
\* step that completes an activate of that very revision.
C19_UntilActivatedAgain ==
    [][\A d \in Deploys :
          pc[d] \in {"fetching", "putting", "copying"} =>
              /\ OverwriteKeepsIndex(d)
              /\ LedgerMarksIndex(d)
              /\ \A q \in RevisionSet :
                     (bucket' # bucket /\ Deactivated(q) /\ IndexIs(q)') =>
                         /\ options[d].method = "activate"
                         /\ options[d].revisionKey = q
                         /\ pc[d] = "copying"
                         /\ outcome'[d] = "ok"]_vars

\* C19, amended. Overwriting the active revision deactivates it: an upload that
\* completes with a new ETag at the key of the revision that is the active one
\* leaves the object at the index key as it was, so the revision is not the
\* active one any more; the ledger fetchRevisions resolves to marks a revision
\* active exactly when the index key has its ETag; a revision q that is not the
\* active one becomes it only in the step that completes with success either
\* an activate of a revision whose object has q's ETag (q itself, or one with
\* the same content), which leaves q's object alone, or an upload to q's own
\* key of content with the index object's ETag, which leaves the index key
\* alone; and an activate that completes with success makes its revision the
\* active one.
C19_OverwriteDeactivates ==
    [][\A d \in Deploys :
          pc[d] \in {"fetching", "putting", "copying"} =>
              LET r == options[d].revisionKey
              IN  /\ OverwriteKeepsIndex(d)
                  /\ LedgerMarksIndex(d)
                  /\ bucket' # bucket =>
                         /\ outcome'[d] = "ok"
                         /\ \A q \in RevisionSet :
                                (~IndexIs(q) /\ IndexIs(q)') =>
                                    \/ /\ options[d].method = "activate"
                                       /\ pc[d] = "copying"
                                       /\ ETagAt(bucket, revisionKey(r))
                                              = ETagAt(bucket, revisionKey(q))
                                       /\ bucket'[revisionKey(q)] = bucket[revisionKey(q)]
                                    \/ /\ options[d].method = "upload"
                                       /\ pc[d] = "putting"
                                       /\ r = q
                                       /\ bucket'[indexKey] = bucket[indexKey]
                                       /\ ETagAt(bucket', revisionKey(q))
                                              = ETagAt(bucket, indexKey)
                         /\ options[d].method = "activate" => IndexIs(r)']_vars

\* C19 witness: the ledger of an upload with allowOverwrite shows the index
\* key with an object and no record active, that of the uploaded revision
\* included: the revision that was activated had been overwritten with other
\* content. The upload has succeeded and the revision is the active one again,
\* with no activate: the old content has been uploaded to its key.
C19_Witness ==
    \E d \in Deploys :
        /\ options[d].method = "upload"
        /\ options[d].allowOverwrite
        /\ pc[d] = "done"
        /\ outcome[d] = "ok"
        /\ head[d].data # Undefined
        /\ HasRecord(d, options[d].revisionKey)
        /\ \A q \in RevisionSet : ~MarkedActive(d, q)
        /\ IndexIs(options[d].revisionKey)

\* C20. Truncated empty page: when a response brings no item while objects are
\* left after the Marker and there is no NextMarker, the listing is rejected
\* with a TypeError in that step and no request more is issued; from then on
\* the caller has no ledger and has failed with no putObject or copyObject
\* issued, with that error unless the head probe had been rejected before.
C20_TruncatedEmptyPage ==
    [][\A d \in Deploys :
          /\ (lister[d].status = "pending" /\ lister'[d] # lister[d]
                /\ ~(pc[d] \in {"idle", "done"} /\ pc'[d] = "fetching")
                /\ lister'[d].error # TransportFailure
                /\ lister'[d].All = lister[d].All
                /\ Len(Rest(lister[d].Marker)) > 0) =>
                 /\ lister'[d].status = "rejected"
                 /\ lister'[d].error = "TypeError"
                 /\ lister'[d].requests = lister[d].requests
                 /\ lister'[d].Marker = lister[d].Marker
          /\ lister[d].error = "TypeError" =>
                 /\ lister[d].status = "rejected"
                 /\ pc[d] = "done"
                 /\ revisions[d] = Undefined
                 /\ calls[d] = <<>>
                 /\ outcome[d] \in {"TypeError"}
                        \cup (IF head[d].status = "rejected" THEN {head[d].error} ELSE {})
                 /\ pc'[d] = "done" => lister'[d] = lister[d]]_vars

\* C20 witness: an activate of an uploaded revision has failed with the
\* TypeError: the second page of its listing was truncated and empty, after a
\* first page with an item; nothing was issued.
C20_Witness ==
    \E d \in Deploys :
        /\ options[d].method = "activate"
        /\ bucket[revisionKey(options[d].revisionKey)] # Undefined
        /\ outcome[d] = "TypeError"
        /\ lister[d].error = "TypeError"
        /\ lister[d].requests = 2
        /\ Len(lister[d].All) = 1
        /\ calls[d] = <<>>

\* The number of objects under the prefix.
Matching == Len(Rest(NoMarker))

\* The listing of deploy d runs, or has run, against the bucket as it is now:
\* nothing has been written since the operation was called.
ListingCurrent(d) ==
    /\ lister[d].status # "none"
    /\ pc[d] = "fetching" \/ options[d].method = "fetchRevisions"

\* C18. Listing termination: against a backend that honours the Marker and
\* puts at least one object in every truncated page, the listing is never
\* rejected, it issues no more requests than there are objects under the
\* prefix (one request when there is none) and collects no more items than
\* there are objects; with no object under the prefix it resolves after one
\* request to an empty collection; and every listing that is pending resolves
\* in the end.
C18_ListingTerminates ==
    /\ [](\A d \in Deploys :
             ListingCurrent(d) =>
                 /\ lister[d].status \in {"pending", "fulfilled"}
                 /\ lister[d].requests <= (IF Matching = 0 THEN 1 ELSE Matching)
                 /\ Len(lister[d].All) <= Matching
                 /\ lister[d].status = "fulfilled" => Len(lister[d].All) = Matching
                 /\ (lister[d].status = "fulfilled" /\ Matching = 0) =>
                        (lister[d].requests = 1 /\ lister[d].All = <<>>))
    /\ (lister[1].status = "pending") ~> (lister[1].status = "fulfilled")

\* C18 witness: a listing of three objects has resolved after three requests,
\* one object a page.
C18_Witness ==
    \E d \in Deploys :
        /\ options[d].method = "fetchRevisions"
        /\ lister[d].status = "fulfilled"
        /\ lister[d].requests = 3
        /\ Len(lister[d].All) = 3
        /\ Matching = 3

\* C15. Check-then-write race: the duplicate check of an upload is decided by
\* the ledger its own listing gave, whatever another upload has done since: it
\* rejects exactly when that ledger holds the revision, and otherwise it goes on
\* to read the file and to issue one putObject to the revision key. So two
\* uploads of one revision that both listed the bucket before either wrote
\* both pass the check and both write.
C15_CheckThenWrite ==
    \A d \in Deploys :
        (options[d].method = "upload" /\ revisions[d] # Undefined) =>
            /\ HasRecord(d, options[d].revisionKey) <=> outcome[d] = DuplicateRevision
            /\ ~HasRecord(d, options[d].revisionKey) =>
                   /\ pc[d] \in {"reading", "putting", "done"}
                   /\ pc[d] = "reading" => calls[d] = <<>>
                   /\ pc[d] \in {"putting", "done"} => OnePut(d)

\* C15 witness: two uploads of the same revision, both without allowOverwrite,
\* have both passed the check and both have a putObject to the same revision
\* key outstanding; the bucket has no object at that key yet.
C15_Witness ==
    /\ options[1].method = "upload" /\ options[2].method = "upload"
    /\ options[1].revisionKey = options[2].revisionKey
    /\ ~options[1].allowOverwrite /\ ~options[2].allowOverwrite
    /\ pc[1] = "putting" /\ pc[2] = "putting"
    /\ OnePut(1) /\ OnePut(2)
    /\ calls[1][1].Key = calls[2][1].Key
    /\ calls[1][1].Body # calls[2][1].Body
    /\ bucket[revisionKey(options[1].revisionKey)] = Undefined

====
